---- MODULE Spec2Model ----
(***************************************************************************)
(* ObscuraRT: the execution context (VulkanContext), the compute pipeline  *)
(* (ComputePipeline), the presentation pipeline (DisplayPipeline) and the  *)
(* application object (ObscuraRT, main.cpp), as a state machine.           *)
(*                                                                         *)
(* Two programs drive the components:                                      *)
(*   Spec     init, then any number of DisplayPipeline::presentFrame calls *)
(*            made one after the other by the owner of the pipelines, then *)
(*            teardown (ObscuraRT::cleanup, or unwinding after a throw).   *)
(*            The GPU queue and the presentation engine run asynchronously *)
(*            to the host thread.                                          *)
(*   AppSpec  main() as written: init, ObscuraRT::run, teardown.           *)
(* Both share the initialisation and teardown actions.                     *)
(*                                                                         *)
(* Three more programs drive single classes and functions:                 *)
(*   CtxSpec      VulkanContext: init() step by step over every list of    *)
(*                enumerated devices, cleanup() calls, the destructor.     *)
(*   ComputeSpec  ComputePipeline on an initialised context: init() over   *)
(*                every kernel bytecode file, processFrame(),              *)
(*                getDescriptorSet(), destructor.                          *)
(*   UnitSpec     one function on its arguments: the swapchain negotiation *)
(*                of createSwapchain, findMemoryType, grabFrame.           *)
(* uint32_t values are words of WordBits bits; arithmetic on them wraps.   *)
(***************************************************************************)
EXTENDS Naturals, Sequences, FiniteSets, TLC

\* Number of images in the chain (createSwapchain asks for minImageCount + 1).
NumImages == 2

\* ObscuraRT::run's frame_count is counted up to this value and then stays.
MaxFrameCount == 3

\* Most physical devices an enumeration reports, and most queue families of one.
MaxDevices == 2
MaxFamilies == 1

\* ctx.cleanup() is called explicitly at most this often before the destructor runs.
MaxCleanupCalls == 1

\* Largest size in bytes of the kernel bytecode file.
MaxShaderBytes == 9

\* Width in bits of the machine words the model computes with in place of
\* uint32_t, and the width and height of the images handed to processFrame.
WordBits == 10
ImageWidth == 3
ImageHeight == 2

\* Most formats a surface reports, most memory types a device reports, and
\* the largest width or height of a surface extent.
MaxFormats == 2
MaxMemoryTypes == 2
MaxExtent == 2

ImageIdx == 0 .. (NumImages - 1)

NoHandle == "-"

\* No function has been called yet; no FrameGrabber has been constructed yet.
NoCall == [fn |-> "none"]
NoGrabber == [constructed |-> FALSE, width_ |-> 0, height_ |-> 0, frame_count_ |-> 0]

VARIABLES
    pc,                 \* position of the host thread
    debugBuild,         \* the build defines no NDEBUG
    objs,               \* ObscuraRT's unique_ptr members that hold an object
    fields,             \* handle fields that are not VK_NULL_HANDLE / nullptr
    destroyLog,         \* handles passed to a destroy call, in call order
    dtorLog,            \* objects whose destructor has run, in order
    exitCode,           \* main's return value ("none" while running)
    closeEvent,         \* a close request sits unprocessed in the window system's event queue
    windowShouldClose,  \* the GLFW window's close flag
    fence,              \* in_flight_fence_: "none" (not created), "signaled", "unsignaled"
    imgAvail,           \* image_available_semaphore_ is signaled
    releasePending,     \* image whose acquisition has still to signal image_available_semaphore_
    renderFinished,     \* render_finished_semaphore_ is signaled
    image,              \* chain image -> "free", "acquired", "queued", "displayed"
    written,            \* chain image -> the copy into it has executed since it was last acquired
    cmdBuf,             \* command_buffers_[i] -> "initial", "executable", "pending", "invalid"
    queue,              \* batches submitted to the present queue and not yet completed
    presentQ,           \* present requests not yet executed by the presentation engine
    imageIndex,         \* presentFrame's local imageIndex
    acquireOk,          \* vkAcquireNextImageKHR of the current call returned success
    ret,                \* what the last presentFrame call returned: "none", "true", "false"
    waitObserved,       \* vkWaitForFences of the current call saw the fence signaled
    fenceEverReset,     \* vkResetFences has been called at least once
    submitsSinceReset,  \* successful vkQueueSubmit calls since the last vkResetFences
    frame_count,        \* ObscuraRT::run's frame_count
    dispatchIssued,     \* the compute dispatch ran since the last frame was grabbed
    presentIssued,      \* vkQueuePresentKHR was called since the last frame was grabbed
    devices,            \* the physical devices vkEnumeratePhysicalDevices reports, in order
    physical_device_,   \* VulkanContext::physical_device_: 0 (VK_NULL_HANDLE) or an index into devices
    cleanupCalls,       \* per VulkanContext::cleanup call so far, the destroy calls it made
    shaderFile,         \* shaders/pixelation.comp.spv as readShaderFile found it (read: it was looked for)
    error,              \* the exception the last failing call threw ("none" if none did)
    processFrameResult, \* how the last ComputePipeline::processFrame call ended ("none" before any)
    computeFence,       \* compute_fence_: "none" (not created), "signaled", "unsignaled"
    grabber,            \* the FrameGrabber object of a client: width_, height_, frame_count_
    query,              \* the last call of a function by a client: its arguments and what it gave
    previous,           \* the call before it, when that was a call of the same per-frame function
    vectors,            \* the sizes of swapchain_images_, swapchain_image_views_, framebuffers_, command_buffers_
    layout,             \* chain image -> the VkImageLayout it is in
    commands            \* command_buffers_[i] -> the commands recorded into it since it was begun

lifeVars == <<pc, debugBuild, objs, fields, destroyLog, dtorLog, exitCode>>
windowVars == <<closeEvent, windowShouldClose>>
syncVars == <<fence, imgAvail, releasePending, renderFinished>>
chainVars == <<image, written, cmdBuf, queue, presentQ>>
gpuVars == <<syncVars, chainVars>>
callVars == <<imageIndex, acquireOk, ret, waitObserved, fenceEverReset, submitsSinceReset>>
loopVars == <<frame_count, dispatchIssued, presentIssued>>
displayVars == <<vectors, layout, commands>>
unitVars == <<computeFence, grabber, query, previous, displayVars>>
apiVars ==
    <<devices, physical_device_, cleanupCalls, shaderFile, error, processFrameResult, unitVars>>
vars == <<lifeVars, windowVars, gpuVars, callVars, loopVars, apiVars>>

--------------------------------------------------------------------------
(* Handles *)

ContextHandles == {"instance_", "debug_messenger_", "device_", "command_pool_"}

ComputeHandles ==
    {"compute_shader_", "descriptor_set_layout_", "compute.pipeline_layout_",
     "compute_pipeline_", "descriptor_pool_", "compute_fence_"}

DisplayHandles ==
    {"window_", "surface_", "swapchain_", "swapchain_image_views_", "render_pass_",
     "framebuffers_", "display.pipeline_layout_", "graphics_pipeline_",
     "display.command_pool_", "image_available_semaphore_",
     "render_finished_semaphore_", "in_flight_fence_"}

Handles == ContextHandles \cup ComputeHandles \cup DisplayHandles

\* The elements of seq that are in S, in seq's order.
Filter(seq, S) == SelectSeq(seq, LAMBDA h : h \in S)

Range(seq) == {seq[i] : i \in 1 .. Len(seq)}

\* How many times h occurs in seq.
Count(seq, h) == Cardinality({i \in 1 .. Len(seq) : seq[i] = h})

\* The handles the first k creation points of an init sequence leave non-null.
Created(points, k) == {points[i] : i \in 1 .. k} \ {NoHandle}

--------------------------------------------------------------------------
(* Physical devices: VulkanContext::isDeviceSuitable and selectPhysicalDevice *)

\* VkPhysicalDevice physical_device_ = VK_NULL_HANDLE;
VK_NULL_HANDLE == 0

SeqsUpTo(S, n) == UNION {[1 .. k -> S] : k \in 0 .. n}

DeviceTypes == {"DISCRETE_GPU", "INTEGRATED_GPU"}

\* A physical device as the queries of isDeviceSuitable and selectPhysicalDevice see
\* it: per queue family whether queueFlags has VK_QUEUE_COMPUTE_BIT, whether the
\* extension list names VK_KHR_swapchain, and props.deviceType.
PhysicalDevices ==
    [queueFamilies : SeqsUpTo(BOOLEAN, MaxFamilies),
     hasSwapchainExt : BOOLEAN,
     deviceType : DeviceTypes]

DeviceLists == SeqsUpTo(PhysicalDevices, MaxDevices)

\* The machine the whole program runs on: one discrete GPU with a compute family
\* and the swapchain extension.
HostDevices ==
    << [queueFamilies |-> <<TRUE>>, hasSwapchainExt |-> TRUE, deviceType |-> "DISCRETE_GPU"] >>

\* for (i = 0; i < queueFamilyCount; i++) if (queueFlags & VK_QUEUE_COMPUTE_BIT) { hasComputeQueue = true; break; }
RECURSIVE hasComputeQueue(_, _)
hasComputeQueue(families, i) ==
    IF i > Len(families) THEN FALSE
    ELSE IF families[i] THEN TRUE
    ELSE hasComputeQueue(families, i + 1)

\* A suitability test that asks for the compute queue only.
isDeviceSuitable_ComputeOnly(device) == hasComputeQueue(device.queueFamilies, 1)

\* return hasComputeQueue && hasSwapchainExt;
isDeviceSuitable(device) ==
    hasComputeQueue(device.queueFamilies, 1) /\ device.hasSwapchainExt

\* First loop of selectPhysicalDevice: the first suitable device of type
\* DISCRETE_GPU at or after index i, VK_NULL_HANDLE if there is none.
RECURSIVE PreferDiscrete(_, _)
PreferDiscrete(devs, i) ==
    IF i > Len(devs) THEN VK_NULL_HANDLE
    ELSE IF isDeviceSuitable(devs[i]) /\ devs[i].deviceType = "DISCRETE_GPU" THEN i
    ELSE PreferDiscrete(devs, i + 1)

\* Second loop of selectPhysicalDevice: the first suitable device at or after
\* index i, VK_NULL_HANDLE if there is none.
RECURSIVE FallbackAny(_, _)
FallbackAny(devs, i) ==
    IF i > Len(devs) THEN VK_NULL_HANDLE
    ELSE IF isDeviceSuitable(devs[i]) THEN i
    ELSE FallbackAny(devs, i + 1)

\* A selection that takes the first suitable device whatever its type.
selectPhysicalDevice_NoPreference(devs) == FallbackAny(devs, 1)

\* selectPhysicalDevice: the index of the device it stores in physical_device_;
\* VK_NULL_HANDLE where it throws and stores nothing.
selectPhysicalDevice(devs) ==
    IF Len(devs) = 0 THEN VK_NULL_HANDLE
    ELSE IF PreferDiscrete(devs, 1) # VK_NULL_HANDLE THEN PreferDiscrete(devs, 1)
    ELSE FallbackAny(devs, 1)

--------------------------------------------------------------------------
(* Initialisation: ObscuraRT::init and the components' init functions.     *)
(* Every create call may fail; the init function then throws at that point *)
(* and the handles created before it stay in their fields.                 *)

\* VulkanContext::init: createInstance, setupDebugMessenger, selectPhysicalDevice,
\* createLogicalDevice, createCommandPool. The messenger exists in debug builds only.
ContextInitPoints ==
    <<"instance_">> \o (IF debugBuild THEN <<"debug_messenger_">> ELSE <<>>)
        \o <<NoHandle, "device_", "command_pool_">>

\* ComputePipeline::init: shader module, descriptor-set layout, pipeline layout,
\* pipeline, descriptor pool, descriptor sets, command buffer, fence.
ComputeInitPoints ==
    <<"compute_shader_", "descriptor_set_layout_", "compute.pipeline_layout_",
      "compute_pipeline_", "descriptor_pool_", NoHandle, NoHandle, "compute_fence_">>

\* DisplayPipeline::init: window, surface, swapchain, image views, render pass,
\* framebuffers, pipeline layout, command pool, command buffers, the two
\* semaphores and the fence. graphics_pipeline_ is never created.
DisplayInitPoints ==
    <<"window_", "surface_", "swapchain_", "swapchain_image_views_", "render_pass_",
      "framebuffers_", "display.pipeline_layout_", "display.command_pool_", NoHandle,
      "image_available_semaphore_", "render_finished_semaphore_", "in_flight_fence_">>

\* The runtime_error each step of VulkanContext::init throws when it fails.
ContextInitErrors ==
    <<"Failed to create Vulkan instance">>
        \o (IF debugBuild THEN <<"Failed to set up debug messenger">> ELSE <<>>)
        \o <<"Failed to find GPUs with Vulkan support", "Failed to create logical device",
             "Failed to create command pool">>

\* The runtime_error each step of ComputePipeline::init throws when it fails.
ComputeInitErrors ==
    <<"Failed to create compute shader module", "Failed to create descriptor set layout",
      "Failed to create pipeline layout", "Failed to create compute pipeline",
      "Failed to create descriptor pool", "Failed to allocate descriptor sets",
      "Failed to allocate command buffer", "Failed to create fence">>

\* The runtime_error each step of DisplayPipeline::init throws when it fails.
DisplayInitErrors ==
    <<"Failed to create GLFW window", "Failed to create window surface",
      "Failed to create swapchain", "Failed to create image view",
      "Failed to create render pass", "Failed to create framebuffer",
      "Failed to create pipeline layout", "Failed to create command pool",
      "Failed to allocate command buffers", "Failed to create synchronization primitives",
      "Failed to create synchronization primitives",
      "Failed to create synchronization primitives">>

\* The four vectors of DisplayPipeline as constructed: empty.
NoVectors ==
    [swapchain_images_ |-> 0, swapchain_image_views_ |-> 0, framebuffers_ |-> 0,
     command_buffers_ |-> 0]

\* uint32_t swapchainImageCount = 0; vkGetSwapchainImagesKHR(device, swapchain_,
\* &swapchainImageCount, nullptr): the number of images of the chain when the
\* query succeeds. Its result is not looked at; a query that fails leaves a
\* count that need not be the chain's.
SwapchainImageCounts == {NumImages} \cup (0 .. NumImages)

\* The sizes the resize calls give the vectors when the first k steps of
\* DisplayPipeline::init succeeded and the query left swapchainImageCount:
\* createSwapchain resizes swapchain_images_ after it created the chain, and
\* createImageViews, createFramebuffers and allocateCommandBuffers each resize
\* their vector, when they are entered, to the size of the vector before.
Resized(k, swapchainImageCount) ==
    LET images == IF k >= 3 THEN swapchainImageCount ELSE 0
        views == IF k >= 3 THEN images ELSE 0
        framebuffers == IF k >= 5 THEN views ELSE 0
    IN  [swapchain_images_ |-> images,
         swapchain_image_views_ |-> views,
         framebuffers_ |-> framebuffers,
         command_buffers_ |-> IF k >= 8 THEN framebuffers ELSE 0]

\* The steps of DisplayPipeline::init that can fail: the loops of
\* createImageViews and createFramebuffers make no create call, and so throw
\* nothing, over an empty vector.
DisplayInitOutcomes(swapchainImageCount) ==
    (0 .. Len(DisplayInitPoints)) \ (IF swapchainImageCount = 0 THEN {3, 5} ELSE {})

\* vk_ctx_ = make_unique<VulkanContext>(); vk_ctx_->init();
InitContext ==
    /\ pc = "init_context"
    /\ objs' = Append(objs, "vk_ctx_")
    /\ \E k \in 0 .. Len(ContextInitPoints) :
        /\ fields' = fields \cup Created(ContextInitPoints, k)
        /\ pc' = IF k = Len(ContextInitPoints) THEN "init_grabber" ELSE "unwind"
        /\ devices' = IF k >= Len(ContextInitPoints) - 2 THEN HostDevices ELSE devices
        /\ physical_device_' = selectPhysicalDevice(devices')
        /\ error' = IF k = Len(ContextInitPoints) THEN error ELSE ContextInitErrors[k + 1]
    /\ UNCHANGED <<debugBuild, destroyLog, dtorLog, exitCode>>
    /\ UNCHANGED <<windowVars, gpuVars, callVars, loopVars>>
    /\ UNCHANGED <<cleanupCalls, shaderFile, processFrameResult, unitVars>>

\* frame_grabber_ = make_unique<FrameGrabber>(1920, 1080); frame_grabber_->init();
InitGrabber ==
    /\ pc = "init_grabber"
    /\ objs' = Append(objs, "frame_grabber_")
    /\ pc' = "init_compute"
    /\ UNCHANGED <<debugBuild, fields, destroyLog, dtorLog, exitCode>>
    /\ UNCHANGED <<windowVars, gpuVars, callVars, loopVars>>
    /\ UNCHANGED apiVars

\* compute_pipeline_ = make_unique<ComputePipeline>(vk_ctx_.get()); compute_pipeline_->init(...);
\* createSynchronization creates the fence with VK_FENCE_CREATE_SIGNALED_BIT.
InitCompute ==
    /\ pc = "init_compute"
    /\ objs' = Append(objs, "compute_pipeline_")
    /\ \E k \in 0 .. Len(ComputeInitPoints) :
        /\ fields' = fields \cup Created(ComputeInitPoints, k)
        /\ pc' = IF k = Len(ComputeInitPoints) THEN "init_display" ELSE "unwind"
        /\ error' = IF k = Len(ComputeInitPoints) THEN error ELSE ComputeInitErrors[k + 1]
    /\ computeFence' = IF "compute_fence_" \in fields' THEN "signaled" ELSE computeFence
    /\ UNCHANGED <<debugBuild, destroyLog, dtorLog, exitCode>>
    /\ UNCHANGED <<windowVars, gpuVars, callVars, loopVars>>
    /\ UNCHANGED <<devices, physical_device_, cleanupCalls, shaderFile, processFrameResult>>
    /\ UNCHANGED <<grabber, query, previous>>
    /\ UNCHANGED displayVars

\* An initialisation whose createSyncObjects creates the fence unsignaled.
InitDisplay_FenceUnsignaled ==
    /\ pc = "init_display"
    /\ objs' = Append(objs, "display_pipeline_")
    /\ \E swapchainImageCount \in SwapchainImageCounts :
       \E k \in DisplayInitOutcomes(swapchainImageCount) :
        /\ fields' = fields \cup Created(DisplayInitPoints, k)
        /\ vectors' = Resized(k, swapchainImageCount)
        /\ pc' = IF k = Len(DisplayInitPoints) THEN "run" ELSE "unwind"
        /\ error' = IF k = Len(DisplayInitPoints) THEN error ELSE DisplayInitErrors[k + 1]
    /\ fence' = IF "in_flight_fence_" \in fields' THEN "unsignaled" ELSE fence
    /\ UNCHANGED <<debugBuild, destroyLog, dtorLog, exitCode>>
    /\ UNCHANGED <<imgAvail, releasePending, renderFinished, chainVars>>
    /\ UNCHANGED <<windowVars, callVars, loopVars>>
    /\ UNCHANGED <<devices, physical_device_, cleanupCalls, shaderFile, processFrameResult>>
    /\ UNCHANGED <<computeFence, grabber, query, previous, layout, commands>>

\* display_pipeline_ = make_unique<DisplayPipeline>(vk_ctx_.get()); display_pipeline_->init(...);
\* createSyncObjects creates the fence with VK_FENCE_CREATE_SIGNALED_BIT.
InitDisplay ==
    /\ pc = "init_display"
    /\ objs' = Append(objs, "display_pipeline_")
    /\ \E swapchainImageCount \in SwapchainImageCounts :
       \E k \in DisplayInitOutcomes(swapchainImageCount) :
        /\ fields' = fields \cup Created(DisplayInitPoints, k)
        /\ vectors' = Resized(k, swapchainImageCount)
        /\ pc' = IF k = Len(DisplayInitPoints) THEN "run" ELSE "unwind"
        /\ error' = IF k = Len(DisplayInitPoints) THEN error ELSE DisplayInitErrors[k + 1]
    /\ fence' = IF "in_flight_fence_" \in fields' THEN "signaled" ELSE fence
    /\ UNCHANGED <<debugBuild, destroyLog, dtorLog, exitCode>>
    /\ UNCHANGED <<imgAvail, releasePending, renderFinished, chainVars>>
    /\ UNCHANGED <<windowVars, callVars, loopVars>>
    /\ UNCHANGED <<devices, physical_device_, cleanupCalls, shaderFile, processFrameResult>>
    /\ UNCHANGED <<computeFence, grabber, query, previous, layout, commands>>

--------------------------------------------------------------------------
(* The window *)

\* A close test that never reports the close flag.
ShouldClose_Never == FALSE

\* DisplayPipeline::shouldClose: window_ && glfwWindowShouldClose(window_).
ShouldClose == "window_" \in fields /\ windowShouldClose

\* glfwPollEvents: the window system's pending events are processed; a close
\* request among them sets the window's close flag.
PollEvents ==
    /\ windowShouldClose' = (windowShouldClose \/ closeEvent)
    /\ closeEvent' = FALSE

\* The user asks the window system to close the window. GLFW sees the request
\* when the application next processes events.
UserClose ==
    /\ "window_" \in fields
    /\ "window_" \notin Range(destroyLog)
    /\ pc \notin {"exited", "crashed"}
    /\ ~closeEvent
    /\ closeEvent' = TRUE
    /\ UNCHANGED <<lifeVars, windowShouldClose, gpuVars, callVars, loopVars>>
    /\ UNCHANGED apiVars

--------------------------------------------------------------------------
(* DisplayPipeline::presentFrame, one action per call it makes *)

\* The value an uninitialised imageIndex is written as.
Indeterminate == NumImages

\* No acquisition has a signal of image_available_semaphore_ outstanding.
NoRelease == NumImages

\* The owner of the pipeline calls presentFrame(compute_output).
CallPresentFrame ==
    /\ pc = "run"
    /\ pc' = "pf_entry"
    /\ ret' = "none"
    /\ imageIndex' = Indeterminate
    /\ acquireOk' = FALSE
    /\ waitObserved' = FALSE
    /\ UNCHANGED <<debugBuild, objs, fields, destroyLog, dtorLog, exitCode>>
    /\ UNCHANGED <<fenceEverReset, submitsSinceReset>>
    /\ UNCHANGED <<windowVars, gpuVars, loopVars>>
    /\ UNCHANGED apiVars

\* if (shouldClose()) return false;
PfShouldClose ==
    /\ pc = "pf_entry"
    /\ IF ShouldClose
         THEN pc' = "run" /\ ret' = "false"
         ELSE pc' = "pf_poll" /\ ret' = ret
    /\ UNCHANGED <<debugBuild, objs, fields, destroyLog, dtorLog, exitCode>>
    /\ UNCHANGED <<imageIndex, acquireOk, waitObserved, fenceEverReset, submitsSinceReset>>
    /\ UNCHANGED <<windowVars, gpuVars, loopVars>>
    /\ UNCHANGED apiVars

\* glfwPollEvents();
PfPoll ==
    /\ pc = "pf_poll"
    /\ PollEvents
    /\ pc' = "pf_wait"
    /\ UNCHANGED <<debugBuild, objs, fields, destroyLog, dtorLog, exitCode>>
    /\ UNCHANGED <<gpuVars, callVars, loopVars>>
    /\ UNCHANGED apiVars

\* A fence wait that returns whatever the state of the fence.
WaitForFences_NoBlock == TRUE

\* vkWaitForFences(device, 1, &in_flight_fence_, VK_TRUE, UINT64_MAX) returns
\* once the fence is signaled.
WaitForFences == fence = "signaled"

PfWait ==
    /\ pc = "pf_wait"
    /\ WaitForFences
    /\ waitObserved' = (fence = "signaled")
    /\ pc' = "pf_reset"
    /\ UNCHANGED <<debugBuild, objs, fields, destroyLog, dtorLog, exitCode>>
    /\ UNCHANGED <<imageIndex, acquireOk, ret, fenceEverReset, submitsSinceReset>>
    /\ UNCHANGED <<windowVars, gpuVars, loopVars>>
    /\ UNCHANGED apiVars

\* vkResetFences(device, 1, &in_flight_fence_);
PfReset ==
    /\ pc = "pf_reset"
    /\ fence' = "unsignaled"
    /\ fenceEverReset' = TRUE
    /\ submitsSinceReset' = 0
    /\ pc' = "pf_acquire"
    /\ UNCHANGED <<debugBuild, objs, fields, destroyLog, dtorLog, exitCode>>
    /\ UNCHANGED <<imgAvail, releasePending, renderFinished, chainVars>>
    /\ UNCHANGED <<imageIndex, acquireOk, ret, waitObserved>>
    /\ UNCHANGED <<windowVars, loopVars>>
    /\ UNCHANGED apiVars

\* vkAcquireNextImageKHR(device, swapchain_, UINT64_MAX, image_available_semaphore_,
\* VK_NULL_HANDLE, &imageIndex) succeeds: the call blocks until the presentation
\* engine has an image to hand out and returns its index; the engine signals the
\* semaphore once it has stopped reading the image.
PfAcquireOk ==
    /\ pc = "pf_acquire"
    /\ \E i \in ImageIdx :
        /\ image[i] = "free"
        /\ image' = [image EXCEPT ![i] = "acquired"]
        /\ written' = [written EXCEPT ![i] = FALSE]
        /\ releasePending' = i
        /\ imageIndex' = i
    /\ acquireOk' = TRUE
    /\ pc' = "pf_record"
    /\ UNCHANGED <<debugBuild, objs, fields, destroyLog, dtorLog, exitCode>>
    /\ UNCHANGED <<fence, imgAvail, renderFinished, cmdBuf, queue, presentQ>>
    /\ UNCHANGED <<ret, waitObserved, fenceEverReset, submitsSinceReset>>
    /\ UNCHANGED <<windowVars, loopVars>>
    /\ UNCHANGED apiVars

\* vkAcquireNextImageKHR fails. The result is not looked at, and imageIndex
\* keeps the indeterminate value it was declared with, which may be any
\* index, in range or not.
PfAcquireFail ==
    /\ pc = "pf_acquire"
    /\ imageIndex' \in ImageIdx \cup {Indeterminate}
    /\ acquireOk' = FALSE
    /\ pc' = "pf_record"
    /\ UNCHANGED <<debugBuild, objs, fields, destroyLog, dtorLog, exitCode>>
    /\ UNCHANGED <<gpuVars, ret, waitObserved, fenceEverReset, submitsSinceReset>>
    /\ UNCHANGED <<windowVars, loopVars>>
    /\ UNCHANGED apiVars

\* VkImageLayout: the layouts presentFrame names.
Layouts == {"UNDEFINED", "TRANSFER_DST_OPTIMAL", "PRESENT_SRC_KHR"}

\* createInfo.imageUsage = VK_IMAGE_USAGE_COLOR_ATTACHMENT_BIT;
imageUsage == {"COLOR_ATTACHMENT"}

\* copyRegion: both offsets {0, 0, 0}, extent {width, height, 1} of the extent
\* given, which presentFrame takes from swapchain_extent_.
CopyRegion(extent) ==
    [srcOffset |-> [x |-> 0, y |-> 0], dstOffset |-> [x |-> 0, y |-> 0],
     extent |-> [width |-> extent.width, height |-> extent.height]]

\* What presentFrame records between vkBeginCommandBuffer and vkEndCommandBuffer
\* for swapchain_images_[i]: a barrier on the image from UNDEFINED to
\* TRANSFER_DST_OPTIMAL, vkCmdCopyImage from the compute output into the image
\* (dstImageLayout TRANSFER_DST_OPTIMAL, written as both layouts of the entry;
\* region: the one of swapchain_extent_), a barrier on the image from
\* TRANSFER_DST_OPTIMAL to PRESENT_SRC_KHR.
Recorded(i) ==
    << [cmd |-> "vkCmdPipelineBarrier", image |-> i, oldLayout |-> "UNDEFINED",
        newLayout |-> "TRANSFER_DST_OPTIMAL", region |-> "none"],
       [cmd |-> "vkCmdCopyImage", image |-> i, oldLayout |-> "TRANSFER_DST_OPTIMAL",
        newLayout |-> "TRANSFER_DST_OPTIMAL", region |-> "swapchain_extent_"],
       [cmd |-> "vkCmdPipelineBarrier", image |-> i, oldLayout |-> "TRANSFER_DST_OPTIMAL",
        newLayout |-> "PRESENT_SRC_KHR", region |-> "none"] >>

\* vkBeginCommandBuffer(command_buffers_[imageIndex]) ... vkEndCommandBuffer: the
\* buffer is reset and recorded (barrier, copy, barrier). Indexing
\* command_buffers_ and swapchain_images_ with an out-of-range value is
\* undefined; it is written as the process crashing.
PfRecord ==
    /\ pc = "pf_record"
    /\ IF imageIndex < vectors.command_buffers_ /\ imageIndex < vectors.swapchain_images_
         THEN /\ cmdBuf' = [cmdBuf EXCEPT ![imageIndex] = "executable"]
              /\ commands' = [commands EXCEPT ![imageIndex] = Recorded(imageIndex)]
              /\ pc' = "pf_submit"
         ELSE /\ cmdBuf' = cmdBuf
              /\ commands' = commands
              /\ pc' = "crashed"
    /\ UNCHANGED <<debugBuild, objs, fields, destroyLog, dtorLog, exitCode>>
    /\ UNCHANGED <<syncVars, image, written, queue, presentQ>>
    /\ UNCHANGED <<windowVars, callVars, loopVars>>
    /\ UNCHANGED <<devices, physical_device_, cleanupCalls, shaderFile, error, processFrameResult>>
    /\ UNCHANGED <<computeFence, grabber, query, previous, vectors, layout>>

\* A submission whose failure is swallowed: presentFrame goes on to the present
\* call with nothing submitted.
PfSubmit_FailureIgnored ==
    /\ pc = "pf_submit"
    /\ \/ /\ queue' = Append(queue, [img |-> imageIndex, copied |-> FALSE])
          /\ cmdBuf' = [cmdBuf EXCEPT ![imageIndex] = "pending"]
          /\ submitsSinceReset' = submitsSinceReset + 1
       \/ UNCHANGED <<queue, cmdBuf, submitsSinceReset>>
    /\ pc' = "pf_present"
    /\ UNCHANGED <<debugBuild, objs, fields, destroyLog, dtorLog, exitCode>>
    /\ UNCHANGED <<syncVars, image, written, presentQ>>
    /\ UNCHANGED <<imageIndex, acquireOk, ret, waitObserved, fenceEverReset>>
    /\ UNCHANGED <<windowVars, loopVars>>
    /\ UNCHANGED apiVars

\* vkQueueSubmit(presentQueue, 1, &submitInfo, in_flight_fence_): the batch waits
\* on image_available_semaphore_ and signals render_finished_semaphore_ and the
\* fence. A result other than VK_SUCCESS throws.
PfSubmit ==
    /\ pc = "pf_submit"
    /\ \/ /\ queue' = Append(queue, [img |-> imageIndex, copied |-> FALSE])
          /\ cmdBuf' = [cmdBuf EXCEPT ![imageIndex] = "pending"]
          /\ submitsSinceReset' = submitsSinceReset + 1
          /\ pc' = "pf_present"
          /\ error' = error
       \/ /\ pc' = "unwind"
          /\ error' = "Failed to submit queue"
          /\ UNCHANGED <<queue, cmdBuf, submitsSinceReset>>
    /\ UNCHANGED <<debugBuild, objs, fields, destroyLog, dtorLog, exitCode>>
    /\ UNCHANGED <<syncVars, image, written, presentQ>>
    /\ UNCHANGED <<imageIndex, acquireOk, ret, waitObserved, fenceEverReset>>
    /\ UNCHANGED <<windowVars, loopVars>>
    /\ UNCHANGED <<devices, physical_device_, cleanupCalls, shaderFile, processFrameResult>>
    /\ UNCHANGED unitVars

\* vkQueuePresentKHR(presentQueue, &presentInfo): the request waits on
\* render_finished_semaphore_; return true.
PfPresent ==
    /\ pc = "pf_present"
    /\ presentQ' = Append(presentQ, imageIndex)
    /\ image' = IF image[imageIndex] = "acquired"
                  THEN [image EXCEPT ![imageIndex] = "queued"]
                  ELSE image
    /\ ret' = "true"
    /\ presentIssued' = TRUE
    /\ pc' = "run"
    /\ UNCHANGED <<debugBuild, objs, fields, destroyLog, dtorLog, exitCode>>
    /\ UNCHANGED <<syncVars, written, cmdBuf, queue>>
    /\ UNCHANGED <<imageIndex, acquireOk, waitObserved, fenceEverReset, submitsSinceReset>>
    /\ UNCHANGED <<windowVars, frame_count, dispatchIssued>>
    /\ UNCHANGED apiVars

--------------------------------------------------------------------------
(* The GPU queue and the presentation engine *)

\* submitInfo.pWaitDstStageMask: the stage at which the batch's wait on
\* image_available_semaphore_ takes place.
WaitDstStage == "COLOR_ATTACHMENT_OUTPUT"

\* The stage in which vkCmdCopyImage, and the layout transition the first
\* barrier orders before it (dstStageMask), execute.
CopyStage == "TRANSFER"

\* The stages logically later than or equal to a stage: what a semaphore wait
\* at that stage holds back.
LaterStages(s) ==
    CASE s = "TOP_OF_PIPE" ->
           {"TOP_OF_PIPE", "TRANSFER", "COLOR_ATTACHMENT_OUTPUT", "BOTTOM_OF_PIPE"}
      [] s = "TRANSFER" -> {"TRANSFER", "BOTTOM_OF_PIPE"}
      [] s = "COLOR_ATTACHMENT_OUTPUT" -> {"COLOR_ATTACHMENT_OUTPUT", "BOTTOM_OF_PIPE"}
      [] OTHER -> {"BOTTOM_OF_PIPE"}

\* Work of the batch in this stage starts only after the semaphore wait.
SemaphoreGates(stage) == stage \in LaterStages(WaitDstStage)

\* The layouts a recorded barrier can leave its image in when it executes on
\* an image in layout current: its newLayout. A barrier that is not valid,
\* because the image was created without the usage its oldLayout or newLayout
\* needs (TRANSFER_DST_OPTIMAL needs transfer-destination usage) or because its
\* oldLayout is neither UNDEFINED nor the current layout, has the effect of a
\* valid one or leaves the image with no defined layout.
Transition(current, barrier) ==
    IF /\ "TRANSFER_DST_OPTIMAL" \in {barrier.oldLayout, barrier.newLayout} =>
              "TRANSFER_DST" \in imageUsage
       /\ barrier.oldLayout \in {"UNDEFINED", current}
      THEN {barrier.newLayout}
      ELSE {barrier.newLayout, "UNDEFINED"}

\* The first barrier (the transition to the transfer-writable layout) and the
\* copy into swapchain_images_[imageIndex] execute.
CopyExecute ==
    /\ queue # <<>>
    /\ ~Head(queue).copied
    /\ SemaphoreGates(CopyStage) => imgAvail
    /\ written' = [written EXCEPT ![Head(queue).img] = TRUE]
    /\ \E l \in Transition(layout[Head(queue).img], commands[Head(queue).img][1]) :
          layout' = [layout EXCEPT ![Head(queue).img] = l]
    /\ queue' = [queue EXCEPT ![1].copied = TRUE]
    /\ UNCHANGED <<lifeVars, windowVars, syncVars, image, cmdBuf, presentQ>>
    /\ UNCHANGED <<callVars, loopVars>>
    /\ UNCHANGED <<devices, physical_device_, cleanupCalls, shaderFile, error, processFrameResult>>
    /\ UNCHANGED <<computeFence, grabber, query, previous, vectors, commands>>

\* The batch completes: all its commands are done (the second barrier, the
\* transition to the presentable layout, last) and its semaphore wait is
\* satisfied; it unsignals image_available_semaphore_ and signals
\* render_finished_semaphore_ and in_flight_fence_.
BatchComplete ==
    /\ queue # <<>>
    /\ Head(queue).copied
    /\ imgAvail
    /\ imgAvail' = FALSE
    /\ renderFinished' = TRUE
    /\ fence' = "signaled"
    /\ cmdBuf' = [cmdBuf EXCEPT ![Head(queue).img] = "invalid"]
    /\ \E l \in Transition(layout[Head(queue).img], commands[Head(queue).img][3]) :
          layout' = [layout EXCEPT ![Head(queue).img] = l]
    /\ queue' = Tail(queue)
    /\ UNCHANGED <<lifeVars, windowVars, releasePending, image, written, presentQ>>
    /\ UNCHANGED <<callVars, loopVars>>
    /\ UNCHANGED <<devices, physical_device_, cleanupCalls, shaderFile, error, processFrameResult>>
    /\ UNCHANGED <<computeFence, grabber, query, previous, vectors, commands>>

\* The presentation engine has stopped reading the image it handed out and
\* signals image_available_semaphore_.
EngineRelease ==
    /\ releasePending \in ImageIdx
    /\ imgAvail' = TRUE
    /\ releasePending' = NoRelease
    /\ UNCHANGED <<lifeVars, windowVars, fence, renderFinished, chainVars>>
    /\ UNCHANGED <<callVars, loopVars>>
    /\ UNCHANGED apiVars

\* The presentation engine executes the oldest present request: it waits on
\* render_finished_semaphore_, unsignals it, shows the image and takes back the
\* image shown before.
EnginePresent ==
    /\ presentQ # <<>>
    /\ renderFinished
    /\ renderFinished' = FALSE
    /\ image' = IF image[Head(presentQ)] = "queued"
                  THEN [j \in ImageIdx |->
                          IF j = Head(presentQ) THEN "displayed"
                          ELSE IF image[j] = "displayed" THEN "free" ELSE image[j]]
                  ELSE image
    /\ presentQ' = Tail(presentQ)
    /\ UNCHANGED <<lifeVars, windowVars, fence, imgAvail, releasePending>>
    /\ UNCHANGED <<written, cmdBuf, queue, callVars, loopVars>>
    /\ UNCHANGED apiVars

--------------------------------------------------------------------------
(* Teardown: ObscuraRT::cleanup resets display_pipeline_, compute_pipeline_, *)
(* frame_grabber_, vk_ctx_; unwinding after a throw destroys the members in  *)
(* reverse order of declaration, which is the same order. Each destructor    *)
(* calls its object's cleanup().                                             *)

\* A teardown that releases the context before the pipelines.
TeardownOrder_ContextFirst ==
    <<"vk_ctx_", "display_pipeline_", "compute_pipeline_", "frame_grabber_">>

TeardownOrder == <<"display_pipeline_", "compute_pipeline_", "frame_grabber_", "vk_ctx_">>

\* The members still holding an object, in the order they will be reset.
Remaining == Filter(TeardownOrder, Range(objs) \ Range(dtorLog))

InTeardown == pc \in {"cleanup", "unwind"}

\* A cleanup that does not wait for the device.
DeviceWaitIdle_Skipped == TRUE

\* vkDeviceWaitIdle(device) returns once every batch submitted to the
\* device's queues has completed.
DeviceWaitIdle == queue = <<>>

\* A display cleanup that makes every destroy call without testing a handle.
DisplayCleanup_Unguarded ==
    <<"in_flight_fence_", "render_finished_semaphore_", "image_available_semaphore_",
      "display.command_pool_", "framebuffers_", "render_pass_", "swapchain_image_views_",
      "graphics_pipeline_", "display.pipeline_layout_", "swapchain_", "surface_", "window_">>

\* DisplayPipeline::cleanup: the destroy calls it makes, in order.
DisplayCleanup ==
    (IF "device_" \in fields
       THEN Filter(<<"in_flight_fence_", "render_finished_semaphore_",
                     "image_available_semaphore_", "display.command_pool_",
                     "framebuffers_", "render_pass_", "swapchain_image_views_",
                     "graphics_pipeline_", "display.pipeline_layout_", "swapchain_">>,
                   fields)
       ELSE <<>>)
    \o (IF "instance_" \in fields /\ "surface_" \in fields THEN <<"surface_">> ELSE <<>>)
    \o (IF "window_" \in fields THEN <<"window_">> ELSE <<>>)

\* A compute cleanup that destroys the kernel module first and the fence last.
ComputeCleanup_ShaderFirst ==
    Filter(<<"compute_shader_", "descriptor_set_layout_", "compute.pipeline_layout_",
             "compute_pipeline_", "descriptor_pool_", "compute_fence_">>,
           fields)

\* ComputePipeline::cleanup: the destroy calls it makes, in order.
ComputeCleanup ==
    Filter(<<"compute_fence_", "descriptor_pool_", "compute_pipeline_",
             "compute.pipeline_layout_", "descriptor_set_layout_", "compute_shader_">>,
           fields)

\* A context cleanup that destroys the instance and its messenger before the
\* device and its command pool.
ContextCleanup_InstanceFirst ==
    (IF "instance_" \in fields
       THEN Filter(<<"debug_messenger_">>, fields) \o <<"instance_">>
       ELSE <<>>)
    \o (IF "device_" \in fields
          THEN Filter(<<"command_pool_">>, fields) \o <<"device_">>
          ELSE <<>>)

\* A context cleanup that makes its four destroy calls without testing a handle.
ContextCleanup_Unguarded ==
    <<"command_pool_", "device_", "debug_messenger_", "instance_">>

\* VulkanContext::cleanup: the destroy calls it makes, in order.
ContextCleanup ==
    (IF "device_" \in fields
       THEN Filter(<<"command_pool_">>, fields) \o <<"device_">>
       ELSE <<>>)
    \o (IF "instance_" \in fields
          THEN Filter(<<"debug_messenger_">>, fields) \o <<"instance_">>
          ELSE <<>>)

\* A destructor that runs after cleanup() was already called on the object once.
DisplayDestructor_AfterCleanup == DisplayCleanup \o DisplayCleanup

\* ~DisplayPipeline() { cleanup(); }
DisplayDestructor == DisplayCleanup

\* ~ComputePipeline() { cleanup(); }
ComputeDestructor == ComputeCleanup

\* ~VulkanContext() { cleanup(); }
ContextDestructor == ContextCleanup

\* display_pipeline_.reset()
ResetDisplay ==
    /\ InTeardown
    /\ Remaining # <<>> /\ Head(Remaining) = "display_pipeline_"
    /\ "device_" \in fields => DeviceWaitIdle
    /\ destroyLog' = destroyLog \o DisplayDestructor
    /\ dtorLog' = Append(dtorLog, "display_pipeline_")
    /\ UNCHANGED <<pc, debugBuild, objs, fields, exitCode>>
    /\ UNCHANGED <<windowVars, gpuVars, callVars, loopVars>>
    /\ UNCHANGED apiVars

\* compute_pipeline_.reset()
ResetCompute ==
    /\ InTeardown
    /\ Remaining # <<>> /\ Head(Remaining) = "compute_pipeline_"
    /\ destroyLog' = destroyLog \o ComputeDestructor
    /\ dtorLog' = Append(dtorLog, "compute_pipeline_")
    /\ UNCHANGED <<pc, debugBuild, objs, fields, exitCode>>
    /\ UNCHANGED <<windowVars, gpuVars, callVars, loopVars>>
    /\ UNCHANGED apiVars

\* frame_grabber_.reset(): FrameGrabber::cleanup releases nothing.
ResetGrabber ==
    /\ InTeardown
    /\ Remaining # <<>> /\ Head(Remaining) = "frame_grabber_"
    /\ dtorLog' = Append(dtorLog, "frame_grabber_")
    /\ UNCHANGED <<pc, debugBuild, objs, fields, destroyLog, exitCode>>
    /\ UNCHANGED <<windowVars, gpuVars, callVars, loopVars>>
    /\ UNCHANGED apiVars

\* vk_ctx_.reset()
ResetContext ==
    /\ InTeardown
    /\ Remaining # <<>> /\ Head(Remaining) = "vk_ctx_"
    /\ destroyLog' = destroyLog \o ContextDestructor
    /\ cleanupCalls' = Append(cleanupCalls, ContextDestructor)
    /\ dtorLog' = Append(dtorLog, "vk_ctx_")
    /\ UNCHANGED <<pc, debugBuild, objs, fields, exitCode>>
    /\ UNCHANGED <<windowVars, gpuVars, callVars, loopVars>>
    /\ UNCHANGED <<devices, physical_device_, shaderFile, error, processFrameResult, unitVars>>

\* A main that returns 0 from the catch block as well.
Exit_AlwaysZero ==
    /\ InTeardown
    /\ Remaining = <<>>
    /\ exitCode' = "0"
    /\ pc' = "exited"
    /\ UNCHANGED <<debugBuild, objs, fields, destroyLog, dtorLog>>
    /\ UNCHANGED <<windowVars, gpuVars, callVars, loopVars>>
    /\ UNCHANGED apiVars

\* main returns: 0 after app.cleanup(), 1 from the catch block.
Exit ==
    /\ InTeardown
    /\ Remaining = <<>>
    /\ exitCode' = IF pc = "cleanup" THEN "0" ELSE "1"
    /\ pc' = "exited"
    /\ UNCHANGED <<debugBuild, objs, fields, destroyLog, dtorLog>>
    /\ UNCHANGED <<windowVars, gpuVars, callVars, loopVars>>
    /\ UNCHANGED apiVars

\* The owner of the pipelines stops presenting frames and tears down.
StopFrames ==
    /\ pc = "run"
    /\ pc' = "cleanup"
    /\ UNCHANGED <<debugBuild, objs, fields, destroyLog, dtorLog, exitCode>>
    /\ UNCHANGED <<windowVars, gpuVars, callVars, loopVars>>
    /\ UNCHANGED apiVars

--------------------------------------------------------------------------
(* ObscuraRT::run *)

\* while (!display_pipeline_->shouldClose())
LoopCheck ==
    /\ pc = "run"
    /\ pc' = IF ShouldClose THEN "cleanup" ELSE "grab"
    /\ UNCHANGED <<debugBuild, objs, fields, destroyLog, dtorLog, exitCode>>
    /\ UNCHANGED <<windowVars, gpuVars, callVars, loopVars>>
    /\ UNCHANGED apiVars

\* Frame frame; if (!frame_grabber_->grabFrame(frame)) break; frame_count++;
\* grabFrame always returns true; resizing the frame's buffer may throw.
\* The body calls neither ComputePipeline::processFrame nor
\* DisplayPipeline::presentFrame.
GrabFrame ==
    /\ pc = "grab"
    /\ \/ /\ frame_count' = IF frame_count < MaxFrameCount THEN frame_count + 1
                                                            ELSE frame_count
          /\ dispatchIssued' = FALSE
          /\ presentIssued' = FALSE
          /\ pc' = "run"
          /\ error' = error
       \/ /\ pc' = "unwind"
          /\ error' = "std::bad_alloc"
          /\ UNCHANGED loopVars
    /\ UNCHANGED <<debugBuild, objs, fields, destroyLog, dtorLog, exitCode>>
    /\ UNCHANGED <<windowVars, gpuVars, callVars>>
    /\ UNCHANGED <<devices, physical_device_, cleanupCalls, shaderFile, processFrameResult>>
    /\ UNCHANGED unitVars

--------------------------------------------------------------------------
(* VulkanContext on its own: a client constructs the object, calls init(),  *)
(* may call cleanup() itself, and lets the destructor run. init() is taken  *)
(* step by step; a step that throws leaves the fields set so far in place.  *)

CtxAlive == pc \in {"ctx_ready", "ctx_failed"}

\* What a step of init leaves alone besides the fields it sets.
CtxStepFrame ==
    /\ UNCHANGED <<debugBuild, objs, destroyLog, dtorLog, exitCode>>
    /\ UNCHANGED <<windowVars, gpuVars, callVars, loopVars>>
    /\ UNCHANGED <<cleanupCalls, shaderFile, processFrameResult, unitVars>>

\* One create call of init: it stores the handle and init goes on, or it fails
\* and init throws msg.
CtxCreate(handle, next, msg) ==
    /\ \/ /\ fields' = fields \cup {handle}
          /\ pc' = next
          /\ error' = error
       \/ /\ fields' = fields
          /\ pc' = "ctx_failed"
          /\ error' = msg
    /\ UNCHANGED <<devices, physical_device_>>
    /\ CtxStepFrame

\* createInstance();
CtxCreateInstance ==
    /\ pc = "ctx_createInstance"
    /\ CtxCreate("instance_", "ctx_setupDebugMessenger", "Failed to create Vulkan instance")

\* setupDebugMessenger(): nothing under NDEBUG; otherwise returns early when
\* vkCreateDebugUtilsMessengerEXT is not found, else creates the messenger.
CtxSetupDebugMessenger ==
    /\ pc = "ctx_setupDebugMessenger"
    /\ \/ /\ debugBuild
          /\ CtxCreate("debug_messenger_", "ctx_selectPhysicalDevice",
                       "Failed to set up debug messenger")
       \/ /\ pc' = "ctx_selectPhysicalDevice"
          /\ UNCHANGED <<fields, error, devices, physical_device_>>
          /\ CtxStepFrame

\* A selection step that goes on to device creation when it found no device.
CtxSelectPhysicalDevice_NoThrow ==
    /\ pc = "ctx_selectPhysicalDevice"
    /\ \E devs \in DeviceLists :
        /\ devices' = devs
        /\ physical_device_' = selectPhysicalDevice(devs)
        /\ pc' = "ctx_createLogicalDevice"
    /\ UNCHANGED <<fields, error>>
    /\ CtxStepFrame

\* selectPhysicalDevice(): enumerates the devices, stores the selected one, or
\* throws when there is no device or no suitable one.
CtxSelectPhysicalDevice ==
    /\ pc = "ctx_selectPhysicalDevice"
    /\ \E devs \in DeviceLists :
        /\ devices' = devs
        /\ IF selectPhysicalDevice(devs) = VK_NULL_HANDLE
             THEN /\ pc' = "ctx_failed"
                  /\ error' = IF Len(devs) = 0
                                 THEN "Failed to find GPUs with Vulkan support"
                                 ELSE "Failed to find suitable GPU"
                  /\ physical_device_' = physical_device_
             ELSE /\ pc' = "ctx_createLogicalDevice"
                  /\ error' = error
                  /\ physical_device_' = selectPhysicalDevice(devs)
    /\ UNCHANGED fields
    /\ CtxStepFrame

\* createLogicalDevice(): vkCreateDevice(physical_device_, ...) then the queues.
CtxCreateLogicalDevice ==
    /\ pc = "ctx_createLogicalDevice"
    /\ CtxCreate("device_", "ctx_createCommandPool", "Failed to create logical device")

\* createCommandPool(); init returns.
CtxCreateCommandPool ==
    /\ pc = "ctx_createCommandPool"
    /\ CtxCreate("command_pool_", "ctx_ready", "Failed to create command pool")

\* The client calls ctx.cleanup(). cleanup() leaves the handle fields as they are.
CtxCleanup ==
    /\ CtxAlive
    /\ Len(cleanupCalls) < MaxCleanupCalls
    /\ destroyLog' = destroyLog \o ContextCleanup
    /\ cleanupCalls' = Append(cleanupCalls, ContextCleanup)
    /\ UNCHANGED <<pc, debugBuild, objs, fields, dtorLog, exitCode>>
    /\ UNCHANGED <<windowVars, gpuVars, callVars, loopVars>>
    /\ UNCHANGED <<devices, physical_device_, shaderFile, error, processFrameResult, unitVars>>

\* The context goes out of scope: ~VulkanContext() { cleanup(); }
CtxDestroy ==
    /\ CtxAlive
    /\ destroyLog' = destroyLog \o ContextDestructor
    /\ cleanupCalls' = Append(cleanupCalls, ContextDestructor)
    /\ dtorLog' = Append(dtorLog, "vk_ctx_")
    /\ pc' = "ctx_destroyed"
    /\ UNCHANGED <<debugBuild, objs, fields, exitCode>>
    /\ UNCHANGED <<windowVars, gpuVars, callVars, loopVars>>
    /\ UNCHANGED <<devices, physical_device_, shaderFile, error, processFrameResult, unitVars>>

--------------------------------------------------------------------------
(* Machine integers, frames and images *)

\* The largest value of a uint32_t.
UINT32_MAX == 2^WordBits - 1

\* uint32_t arithmetic: the result modulo 2^width.
Wrap(n) == n % (2^WordBits)

\* Conversion to uint8_t.
Byte(n) == n % 256

\* The uint32_t values that arguments are drawn from: small ones, the square
\* root of the word range, and the two largest.
Words == {0, 1, 2, 3, 2^((WordBits + 1) \div 2), UINT32_MAX - 1, UINT32_MAX}

Min(a, b) == IF a <= b THEN a ELSE b

\* a & b
RECURSIVE BitAnd(_, _)
BitAnd(a, b) ==
    IF a = 0 \/ b = 0 THEN 0
    ELSE 2 * BitAnd(a \div 2, b \div 2) + (a % 2) * (b % 2)

\* The pixel grabFrame's loop body writes at column x of row y:
\* r = (x * 255) / width_, g = (y * 255) / height_,
\* b = ((x + y) * 255) / (width_ + height_), a = 255. Where width_ + height_
\* wraps to 0 the division is undefined; b then stands for a build that
\* yields 0 (one that traps is the crash outcome of CallGrabFrame).
GradientPixel(x, y, width_, height_) ==
    <<Byte(Wrap(x * 255) \div width_),
      Byte(Wrap(y * 255) \div height_),
      IF Wrap(width_ + height_) = 0 THEN 0
      ELSE Byte(Wrap(Wrap(x + y) * 255) \div Wrap(width_ + height_)),
      255>>

\* The coordinates of an image of ImageWidth x ImageHeight pixels.
Coords == (0 .. (ImageWidth - 1)) \X (0 .. (ImageHeight - 1))

\* A cleared image, and the images a client hands to processFrame as input:
\* the test pattern of a FrameGrabber, and the cleared image.
BlankImage == [c \in Coords |-> <<0, 0, 0, 0>>]
InputImages ==
    {[c \in Coords |-> GradientPixel(c[1], c[2], ImageWidth, ImageHeight)], BlankImage}

\* No processFrame call has been made.
NoDispatch ==
    [called |-> FALSE, input |-> BlankImage, block_size |-> 0, output |-> BlankImage]

--------------------------------------------------------------------------
(* ComputePipeline on its own: a client holding an initialised context      *)
(* constructs the pipeline, calls init() and processFrame(), and lets the   *)
(* destructor run.                                                          *)

\* The file shaders/pixelation.comp.spv: absent, or present with a size in bytes;
\* spirv says that its content is a valid SPIR-V module, which takes a
\* non-empty whole number of 4-byte words.
ShaderFiles ==
    {[read |-> TRUE, exists |-> FALSE, size |-> 0, spirv |-> FALSE]}
    \cup {[read |-> TRUE, exists |-> TRUE, size |-> n, spirv |-> v] :
            n \in 0 .. MaxShaderBytes, v \in {FALSE}}
    \cup {[read |-> TRUE, exists |-> TRUE, size |-> n, spirv |-> TRUE] :
            n \in {k \in 1 .. MaxShaderBytes : k % 4 = 0}}

\* std::vector<uint32_t> buffer(fileSize / sizeof(uint32_t));
ReadBufferWords(fileSize) == fileSize \div 4

\* file.read((char*)buffer.data(), fileSize) writes fileSize bytes into the buffer.
ReadOverruns(fileSize) == fileSize > 4 * ReadBufferWords(fileSize)

\* file.read((char*)buffer.data(), fileSize): the bytes written into the buffer.
ReadBytes(fileSize) == fileSize

\* createInfo.codeSize = code.size() * sizeof(uint32_t);
CodeSize(fileSize) == ReadBufferWords(fileSize) * 4

CmpAlive == pc \in {"cmp_constructed", "cmp_ready", "cmp_failed"}

\* The client's context: VulkanContext::init has returned.
CmpContext ==
    /\ pc = "cmp_context"
    /\ fields' = fields \cup Created(ContextInitPoints, Len(ContextInitPoints))
    /\ devices' = HostDevices
    /\ physical_device_' = selectPhysicalDevice(HostDevices)
    /\ pc' = "cmp_constructed"
    /\ UNCHANGED <<debugBuild, objs, destroyLog, dtorLog, exitCode>>
    /\ UNCHANGED <<windowVars, gpuVars, callVars, loopVars>>
    /\ UNCHANGED <<cleanupCalls, shaderFile, error, processFrameResult, unitVars>>

\* init(): createShaderModule(). readShaderFile throws when the file cannot be
\* opened. Otherwise the words read go to vkCreateShaderModule, which succeeds
\* or fails; when the read overran the buffer, or the code handed over is not
\* a SPIR-V module, the behaviour is undefined and the call may also crash.
CmpCreateShaderModule ==
    /\ pc = "cmp_constructed"
    /\ ~shaderFile.read
    /\ \E f \in ShaderFiles :
        /\ shaderFile' = f
        /\ IF ~f.exists
             THEN /\ pc' = "cmp_failed"
                  /\ error' = "Failed to open shader file"
                  /\ fields' = fields
             ELSE \/ /\ fields' = fields \cup {"compute_shader_"}
                     /\ pc' = "cmp_createRest"
                     /\ error' = error
                  \/ /\ fields' = fields
                     /\ pc' = "cmp_failed"
                     /\ error' = ComputeInitErrors[1]
                  \/ /\ ReadOverruns(f.size) \/ CodeSize(f.size) = 0 \/ ~f.spirv
                     /\ fields' = fields
                     /\ pc' = "crashed"
                     /\ error' = error
    /\ UNCHANGED <<debugBuild, objs, destroyLog, dtorLog, exitCode>>
    /\ UNCHANGED <<windowVars, gpuVars, callVars, loopVars>>
    /\ UNCHANGED <<devices, physical_device_, cleanupCalls, processFrameResult, unitVars>>

\* init(): createDescriptorSetLayout() ... createSynchronization(); the first
\* step that fails throws.
CmpCreateRest ==
    /\ pc = "cmp_createRest"
    /\ \E k \in 1 .. Len(ComputeInitPoints) :
        /\ fields' = fields \cup Created(ComputeInitPoints, k)
        /\ IF k = Len(ComputeInitPoints)
             THEN pc' = "cmp_ready" /\ error' = error
             ELSE pc' = "cmp_failed" /\ error' = ComputeInitErrors[k + 1]
    /\ UNCHANGED <<debugBuild, objs, destroyLog, dtorLog, exitCode>>
    /\ UNCHANGED <<windowVars, gpuVars, callVars, loopVars>>
    /\ computeFence' = IF "compute_fence_" \in fields' THEN "signaled" ELSE computeFence
    /\ UNCHANGED <<devices, physical_device_, cleanupCalls, shaderFile>>
    /\ UNCHANGED <<processFrameResult, grabber, query, previous>>
    /\ UNCHANGED displayVars

\* The record of a processFrame call: the arguments, the content of the
\* output image after it, and the same of the call before it.
Dispatched(input, block_size, output) ==
    [called |-> TRUE, configured |-> (pc = "cmp_ready"), outcome |-> "returned",
     input |-> input, block_size |-> block_size, output |-> output,
     before |-> [called |-> processFrameResult.called,
                 input |-> processFrameResult.input,
                 block_size |-> processFrameResult.block_size,
                 output |-> processFrameResult.output]]

\* A processFrame whose output changes from one call to the next.
CallProcessFrame_OutputAlternates ==
    /\ CmpAlive
    /\ \E input \in InputImages, block_size \in 1 .. Min(ImageWidth, ImageHeight) :
        processFrameResult' =
            Dispatched(input, block_size,
                       [c \in Coords |->
                           IF processFrameResult.output[c] = <<0, 0, 0, 0>>
                             THEN <<255, 255, 255, 255>> ELSE <<0, 0, 0, 0>>])
    /\ UNCHANGED <<pc, debugBuild, objs, fields, destroyLog, dtorLog, exitCode>>
    /\ UNCHANGED <<windowVars, gpuVars, callVars, loopVars>>
    /\ UNCHANGED <<devices, physical_device_, cleanupCalls, shaderFile, error, unitVars>>

\* processFrame(input_image, output_image, block_size): the body is empty; the
\* call returns whatever the state of the pipeline and leaves the output image
\* as it was.
CallProcessFrame ==
    /\ CmpAlive
    /\ \E input \in InputImages, block_size \in 1 .. Min(ImageWidth, ImageHeight) :
        processFrameResult' = Dispatched(input, block_size, processFrameResult.output)
    /\ UNCHANGED <<pc, debugBuild, objs, fields, destroyLog, dtorLog, exitCode>>
    /\ UNCHANGED <<windowVars, gpuVars, callVars, loopVars>>
    /\ UNCHANGED <<devices, physical_device_, cleanupCalls, shaderFile, error, unitVars>>

\* A lookup that hands out the first descriptor set for every frame.
getDescriptorSet_FirstOnly(frame_index) == 0

\* getDescriptorSet: the position in descriptor_sets_ of the set it returns.
getDescriptorSet(frame_index) == frame_index % 2

\* The client asks a configured pipeline for the descriptor set of a frame.
CallGetDescriptorSet ==
    /\ pc = "cmp_ready"
    /\ \E frame_index \in Words :
        query' = [fn |-> "getDescriptorSet", frame_index |-> frame_index,
                  set |-> getDescriptorSet(frame_index)]
    /\ previous' = IF query.fn = "getDescriptorSet" THEN query ELSE NoCall
    /\ UNCHANGED <<pc, debugBuild, objs, fields, destroyLog, dtorLog, exitCode>>
    /\ UNCHANGED <<windowVars, gpuVars, callVars, loopVars>>
    /\ UNCHANGED <<devices, physical_device_, cleanupCalls, shaderFile, error>>
    /\ UNCHANGED <<processFrameResult, computeFence, grabber>>
    /\ UNCHANGED displayVars

\* The pipeline goes out of scope: ~ComputePipeline() { cleanup(); }
CmpDestroy ==
    /\ CmpAlive
    /\ destroyLog' = destroyLog \o ComputeDestructor
    /\ dtorLog' = Append(dtorLog, "compute_pipeline_")
    /\ pc' = "cmp_destroyed"
    /\ UNCHANGED <<debugBuild, objs, fields, exitCode>>
    /\ UNCHANGED <<windowVars, gpuVars, callVars, loopVars>>
    /\ UNCHANGED apiVars

--------------------------------------------------------------------------
(* Single functions called by a client (a unit test): the swapchain         *)
(* negotiation of DisplayPipeline::createSwapchain over every capability    *)
(* report, VulkanContext::findMemoryType over every set of memory types,    *)
(* and FrameGrabber::grabFrame over every frame size.                       *)

\* The surface formats a device may report, and the one createSwapchain prefers.
SurfaceFormats ==
    [format : {"R8G8B8A8_UNORM", "B8G8R8A8_SRGB"},
     colorSpace : {"SRGB_NONLINEAR", "HDR10_ST2084"}]
PreferredFormat == [format |-> "R8G8B8A8_UNORM", colorSpace |-> "SRGB_NONLINEAR"]

\* What reading element 0 of an empty vector may give besides a format.
IndeterminateFormat == [format |-> "indeterminate", colorSpace |-> "indeterminate"]

\* The position of the first preferred format at or after i; 0 if there is none.
RECURSIVE FirstPreferred(_, _)
FirstPreferred(formats, i) ==
    IF i > Len(formats) THEN 0
    ELSE IF formats[i] = PreferredFormat THEN i
    ELSE FirstPreferred(formats, i + 1)

\* selectedFormat = formats[0]; the loop replaces it by the first preferred
\* format. For a list that is not empty.
selectedFormat(formats) ==
    IF FirstPreferred(formats, 1) # 0 THEN formats[FirstPreferred(formats, 1)]
    ELSE formats[1]

\* The current extents a surface reports: the special value, or a size.
UndefinedExtent == [width |-> UINT32_MAX, height |-> UINT32_MAX]
Extents == {UndefinedExtent} \cup [width : 1 .. MaxExtent, height : 1 .. MaxExtent]

\* An extent choice that always takes the caller's width and height.
swapchainExtent_CallerOnly(currentExtent, width, height) ==
    [width |-> width, height |-> height]

\* swapchain_extent_ = capabilities.currentExtent, replaced by the caller's
\* width and height when currentExtent.width is UINT32_MAX.
swapchainExtent(currentExtent, width, height) ==
    IF currentExtent.width = UINT32_MAX THEN [width |-> width, height |-> height]
    ELSE currentExtent

\* imageCount = minImageCount + 1 in uint32_t, replaced by maxImageCount when
\* that is not 0 and smaller.
imageCount(minImageCount, maxImageCount) ==
    IF maxImageCount > 0 /\ Wrap(minImageCount + 1) > maxImageCount THEN maxImageCount
    ELSE Wrap(minImageCount + 1)

\* createSwapchain(width, height) on a surface with the given capabilities and
\* formats; copyRegion is the region presentFrame copies with the extent stored. formats[0] of an empty list is undefined: the call crashes or goes
\* on with whatever it read. vkCreateSwapchainKHR then succeeds or fails.
CallCreateSwapchain ==
    /\ pc = "unit"
    /\ \E minImageCount \in Words, maxImageCount \in Words, currentExtent \in Extents,
          width \in 1 .. MaxExtent, height \in 1 .. MaxExtent,
          formats \in SeqsUpTo(SurfaceFormats, MaxFormats) :
        LET Called(format, outcome) ==
                [fn |-> "createSwapchain", minImageCount |-> minImageCount,
                 maxImageCount |-> maxImageCount, currentExtent |-> currentExtent,
                 width |-> width, height |-> height, formats |-> formats,
                 selectedFormat |-> format,
                 imageCount |-> imageCount(minImageCount, maxImageCount),
                 swapchain_extent_ |-> swapchainExtent(currentExtent, width, height),
                 copyRegion |-> CopyRegion(swapchainExtent(currentExtent, width, height)),
                 outcome |-> outcome]
        IN  \/ /\ \E format \in (IF Len(formats) = 0
                                     THEN SurfaceFormats \cup {IndeterminateFormat}
                                     ELSE {selectedFormat(formats)}) :
                      \/ /\ query' = Called(format, "created")
                         /\ error' = error
                      \/ /\ query' = Called(format, "failed")
                         /\ error' = "Failed to create swapchain"
                  /\ pc' = "unit_done"
            \/ /\ Len(formats) = 0
               /\ query' = Called(IndeterminateFormat, "crashed")
               /\ error' = error
               /\ pc' = "crashed"
    /\ UNCHANGED <<grabber, previous, displayVars>>
    /\ UNCHANGED <<debugBuild, objs, fields, destroyLog, dtorLog, exitCode>>
    /\ UNCHANGED <<windowVars, gpuVars, callVars, loopVars>>
    /\ UNCHANGED <<devices, physical_device_, cleanupCalls, shaderFile>>
    /\ UNCHANGED <<processFrameResult, computeFence>>

\* VkMemoryPropertyFlags over two flag bits.
PropertyFlags == 0 .. 3

\* The loop of findMemoryType from index i on: the first index whose bit is
\* set in typeFilter and whose propertyFlags & properties == properties.
RECURSIVE findMemoryTypeFrom(_, _, _, _)
findMemoryTypeFrom(memoryTypes, typeFilter, properties, i) ==
    IF i >= Len(memoryTypes) THEN [found |-> FALSE, index |-> 0]
    ELSE IF /\ BitAnd(typeFilter, 2^i) # 0
            /\ BitAnd(memoryTypes[i + 1], properties) = properties
           THEN [found |-> TRUE, index |-> i]
    ELSE findMemoryTypeFrom(memoryTypes, typeFilter, properties, i + 1)

\* A search that does not look at typeFilter.
findMemoryType_AnyType(memoryTypes, typeFilter, properties) ==
    findMemoryTypeFrom(memoryTypes, 2^(MaxMemoryTypes + 1) - 1, properties, 0)

\* findMemoryType(typeFilter, properties) on a device with the given memory
\* types (the propertyFlags of each, in index order).
findMemoryType(memoryTypes, typeFilter, properties) ==
    findMemoryTypeFrom(memoryTypes, typeFilter, properties, 0)

CallFindMemoryType ==
    /\ pc = "unit"
    /\ \E memoryTypes \in SeqsUpTo(PropertyFlags, MaxMemoryTypes),
          typeFilter \in 0 .. (2^(MaxMemoryTypes + 1) - 1),
          properties \in PropertyFlags :
        LET r == findMemoryType(memoryTypes, typeFilter, properties)
        IN  /\ query' = [fn |-> "findMemoryType", memoryTypes |-> memoryTypes,
                         typeFilter |-> typeFilter, properties |-> properties,
                         outcome |-> IF r.found THEN "returned" ELSE "thrown",
                         index |-> r.index]
            /\ error' = IF r.found THEN error
                        ELSE "Failed to find suitable memory type"
    /\ pc' = "unit_done"
    /\ UNCHANGED <<grabber, previous, displayVars>>
    /\ UNCHANGED <<debugBuild, objs, fields, destroyLog, dtorLog, exitCode>>
    /\ UNCHANGED <<windowVars, gpuVars, callVars, loopVars>>
    /\ UNCHANGED <<devices, physical_device_, cleanupCalls, shaderFile>>
    /\ UNCHANGED <<processFrameResult, computeFence>>

\* FrameGrabber grabber(width, height);
ConstructGrabber ==
    /\ pc = "unit"
    /\ \E width \in Words, height \in Words :
        grabber' = [constructed |-> TRUE, width_ |-> width, height_ |-> height,
                    frame_count_ |-> 0]
    /\ pc' = "unit_grabber"
    /\ UNCHANGED <<error, query, previous>>
    /\ UNCHANGED displayVars
    /\ UNCHANGED <<debugBuild, objs, fields, destroyLog, dtorLog, exitCode>>
    /\ UNCHANGED <<windowVars, gpuVars, callVars, loopVars>>
    /\ UNCHANGED <<devices, physical_device_, cleanupCalls, shaderFile>>
    /\ UNCHANGED <<processFrameResult, computeFence>>

\* size_t pixels = width_ * height_: the product is taken in uint32_t.
Pixels(width_, height_) == Wrap(width_ * height_)

\* The frame grabFrame fills: the fields it sets, the size of the buffer after
\* data.resize(pixels * 4), and the pixels the loops wrote inside the buffer;
\* the loops write width_ * height_ pixels, row after row.
GrabbedFrame(width_, height_, returned) ==
    [fn |-> "grabFrame", returned |-> returned,
     width |-> width_, height |-> height_, stride |-> Wrap(width_ * 4),
     size |-> Pixels(width_, height_) * 4,
     data |-> [i \in 0 .. (Pixels(width_, height_) - 1) |->
                  GradientPixel(i % width_, i \div width_, width_, height_)]]

\* grabber.grabFrame(frame). Where the loops write more pixels than the
\* buffer holds, or divide by a width_ + height_ that wrapped to 0, the
\* behaviour is undefined: the call crashes or returns.
CallGrabFrame ==
    /\ pc = "unit_grabber"
    /\ grabber.frame_count_ < MaxFrameCount
    /\ \/ /\ query' = GrabbedFrame(grabber.width_, grabber.height_, "true")
          /\ grabber' = [grabber EXCEPT !.frame_count_ = Wrap(@ + 1)]
          /\ pc' = pc
       \/ /\ \/ grabber.width_ * grabber.height_ > Pixels(grabber.width_, grabber.height_)
             \/ /\ grabber.width_ * grabber.height_ > 0
                /\ Wrap(grabber.width_ + grabber.height_) = 0
          /\ query' = GrabbedFrame(grabber.width_, grabber.height_, "crashed")
          /\ grabber' = grabber
          /\ pc' = "crashed"
    /\ previous' = IF query.fn = "grabFrame" THEN query ELSE NoCall
    /\ UNCHANGED error
    /\ UNCHANGED displayVars
    /\ UNCHANGED <<debugBuild, objs, fields, destroyLog, dtorLog, exitCode>>
    /\ UNCHANGED <<windowVars, gpuVars, callVars, loopVars>>
    /\ UNCHANGED <<devices, physical_device_, cleanupCalls, shaderFile>>
    /\ UNCHANGED <<processFrameResult, computeFence>>

--------------------------------------------------------------------------
(* Specifications *)

\* Nothing constructed yet: every handle field holds its default initializer.
Fresh ==
    /\ debugBuild \in BOOLEAN
    /\ objs = <<>>
    /\ fields = {}
    /\ destroyLog = <<>>
    /\ dtorLog = <<>>
    /\ exitCode = "none"
    /\ closeEvent = FALSE
    /\ windowShouldClose = FALSE
    /\ fence = "none"
    /\ imgAvail = FALSE
    /\ releasePending = NoRelease
    /\ renderFinished = FALSE
    /\ image = [i \in ImageIdx |-> "free"]
    /\ written = [i \in ImageIdx |-> FALSE]
    /\ cmdBuf = [i \in ImageIdx |-> "initial"]
    /\ queue = <<>>
    /\ presentQ = <<>>
    /\ imageIndex = Indeterminate
    /\ acquireOk = FALSE
    /\ ret = "none"
    /\ waitObserved = FALSE
    /\ fenceEverReset = FALSE
    /\ submitsSinceReset = 0
    /\ frame_count = 0
    /\ dispatchIssued = FALSE
    /\ presentIssued = FALSE
    /\ devices = <<>>
    /\ physical_device_ = VK_NULL_HANDLE
    /\ cleanupCalls = <<>>
    /\ shaderFile = [read |-> FALSE, exists |-> FALSE, size |-> 0, spirv |-> FALSE]
    /\ error = "none"
    /\ processFrameResult =
          [called |-> FALSE, configured |-> FALSE, outcome |-> "none",
           input |-> BlankImage, block_size |-> 0, output |-> BlankImage,
           before |-> NoDispatch]
    /\ computeFence = "none"
    /\ grabber = NoGrabber
    /\ query = NoCall
    /\ previous = NoCall
    /\ vectors = NoVectors
    /\ layout = [i \in ImageIdx |-> "UNDEFINED"]
    /\ commands = [i \in ImageIdx |-> <<>>]

\* main() is entered.
Init == pc = "init_context" /\ Fresh

InitSteps == InitContext \/ InitGrabber \/ InitCompute \/ InitDisplay

\* The steps of presentFrame that the host thread takes by itself.
PresentFrameSteps ==
    PfShouldClose \/ PfPoll \/ PfWait \/ PfReset \/ PfAcquireOk \/ PfRecord
        \/ PfSubmit \/ PfPresent

GpuSteps == CopyExecute \/ BatchComplete

EngineSteps == EngineRelease \/ EnginePresent

TeardownSteps == ResetDisplay \/ ResetCompute \/ ResetGrabber \/ ResetContext \/ Exit

Next ==
    \/ InitSteps
    \/ CallPresentFrame
    \/ PresentFrameSteps
    \/ PfAcquireFail
    \/ StopFrames
    \/ GpuSteps
    \/ EngineSteps
    \/ TeardownSteps
    \/ UserClose

Spec == Init /\ [][Next]_vars

\* The host thread keeps running, submitted work is executed, and the
\* presentation engine keeps serving its requests. Nothing obliges the owner
\* to call presentFrame again, the user to close the window, or an
\* acquisition to fail.
FairSpec ==
    /\ Spec
    /\ WF_vars(PresentFrameSteps)
    /\ WF_vars(GpuSteps)
    /\ WF_vars(EngineSteps)
    /\ WF_vars(TeardownSteps)

AppNext ==
    \/ InitSteps
    \/ LoopCheck
    \/ GrabFrame
    \/ TeardownSteps
    \/ UserClose

AppSpec == Init /\ [][AppNext]_vars

\* main's thread keeps running.
AppFairSpec ==
    /\ AppSpec
    /\ WF_vars(InitSteps \/ LoopCheck \/ GrabFrame \/ TeardownSteps)

\* A client of VulkanContext alone.
CtxInit == pc = "ctx_createInstance" /\ Fresh

CtxNext ==
    \/ CtxCreateInstance
    \/ CtxSetupDebugMessenger
    \/ CtxSelectPhysicalDevice
    \/ CtxCreateLogicalDevice
    \/ CtxCreateCommandPool
    \/ CtxCleanup
    \/ CtxDestroy

CtxSpec == CtxInit /\ [][CtxNext]_vars

\* A client of ComputePipeline alone.
ComputeInit == pc = "cmp_context" /\ Fresh

ComputeNext ==
    \/ CmpContext
    \/ CmpCreateShaderModule
    \/ CmpCreateRest
    \/ CallProcessFrame
    \/ CallGetDescriptorSet
    \/ CmpDestroy

ComputeSpec == ComputeInit /\ [][ComputeNext]_vars

\* A client of one function.
UnitInit == pc = "unit" /\ Fresh

UnitNext ==
    \/ CallCreateSwapchain
    \/ CallFindMemoryType
    \/ ConstructGrabber
    \/ CallGrabFrame

UnitSpec == UnitInit /\ [][UnitNext]_vars

--------------------------------------------------------------------------
(* Properties *)

C2_CopyAfterAcquireBeforePresent ==
    \A i \in ImageIdx :
        /\ image[i] = "displayed" => written[i]
        /\ ~(releasePending = i /\ written[i])

C4_ClosedReturnsFalse ==
    [][(pc = "pf_entry" /\ "window_" \in fields /\ windowShouldClose /\ pc' # pc) =>
          (/\ pc' = "run"
           /\ ret' = "false"
           /\ UNCHANGED <<gpuVars, windowVars, imageIndex, acquireOk, waitObserved,
                          fenceEverReset, submitsSinceReset, presentIssued>>)]_vars

\* C4 witness: a call returned false after an earlier frame was presented and
\* while that frame's submission is still outstanding.
C4_Witness == pc = "run" /\ ret = "false" /\ windowShouldClose /\ queue # <<>>

\* C5: with no close request ever made and submitted batches always
\* eventually completing, every presentFrame call that is entered eventually
\* returns true.
C5_EveryCallReturnsTrue ==
    ([]<>(queue = <<>>) /\ [](~closeEvent /\ ~windowShouldClose))
        => ((pc = "pf_entry") ~> (pc = "run" /\ ret = "true"))

\* C6: once the user has asked to close the window, the frame loop
\* eventually exits.
C6_CloseEndsLoop == closeEvent ~> (pc \notin {"run", "grab"})

\* C7: an iteration of the frame loop grabs its frame only after the
\* iteration before it has dispatched the compute work and issued its present.
C7_IterationOrder ==
    (pc = "grab" /\ frame_count >= 1) => (dispatchIssued /\ presentIssued)

\* C8: no handle is passed to a destroy call more than once.
C8_DestroyedAtMostOnce == \A h \in Handles : Count(destroyLog, h) <= 1

\* C8 witness: a complete run: frames were presented, teardown went through
\* ObscuraRT::cleanup and main returned, with the handles of all three
\* components destroyed.
C8_Witness ==
    /\ pc = "exited" /\ exitCode = "0" /\ presentIssued
    /\ {"in_flight_fence_", "window_", "compute_fence_", "device_", "instance_"}
            \subseteq Range(destroyLog)

\* C9: the execution context is the first object created; objects are
\* destroyed in reverse order of creation, so the context's destructor runs
\* after those of all other objects; no context handle is destroyed before a
\* handle of another component; and when main has returned every object
\* created has been destroyed.
C9_ContextFirstAndLast ==
    /\ objs # <<>> => objs[1] = "vk_ctx_"
    /\ Len(dtorLog) <= Len(objs)
    /\ \A i \in 1 .. Len(dtorLog) : dtorLog[i] = objs[Len(objs) + 1 - i]
    /\ \A i, j \in 1 .. Len(destroyLog) :
          (destroyLog[i] \in ContextHandles /\ destroyLog[j] \notin ContextHandles)
              => j < i
    /\ pc = "exited" => Len(dtorLog) = Len(objs)

\* C9 witness: main returned through the catch block after an error in the
\* loop, with all four objects created and destroyed.
C9_Witness ==
    /\ pc = "exited" /\ exitCode = "1" /\ presentIssued
    /\ Len(objs) = 4 /\ Len(dtorLog) = 4

\* The place of a presentation handle in the order C10 states.
C10_Rank(h) ==
    CASE h = "in_flight_fence_" -> 1
      [] h \in {"render_finished_semaphore_", "image_available_semaphore_"} -> 2
      [] h = "display.command_pool_" -> 3
      [] h = "framebuffers_" -> 4
      [] h = "render_pass_" -> 5
      [] h = "swapchain_image_views_" -> 6
      [] h \in {"graphics_pipeline_", "display.pipeline_layout_"} -> 7
      [] h = "swapchain_" -> 8
      [] h = "surface_" -> 9
      [] h = "window_" -> 10
      [] OTHER -> 0

C11_CleanupIdempotent ==
    \A i \in 2 .. Len(cleanupCalls) : cleanupCalls[i] = <<>>

\* The place of a context handle in the order C12 states.
C12_Rank(h) ==
    CASE h = "command_pool_" -> 1
      [] h = "device_" -> 2
      [] h = "debug_messenger_" -> 3
      [] h = "instance_" -> 4
      [] OTHER -> 0

\* C12: every VulkanContext::cleanup call destroys only context handles and
\* in the order command pool, device, debug messenger, instance.
C12_ContextCleanupOrder ==
    \A c \in 1 .. Len(cleanupCalls) :
        /\ Range(cleanupCalls[c]) \subseteq ContextHandles
        /\ \A i, j \in 1 .. Len(cleanupCalls[c]) :
              i < j => C12_Rank(cleanupCalls[c][i]) < C12_Rank(cleanupCalls[c][j])

\* C12 witness: a cleanup call on a fully initialised debug-build context
\* made all four destroy calls.
C12_Witness ==
    /\ pc = "ctx_ready"
    /\ cleanupCalls = << <<"command_pool_", "device_", "debug_messenger_", "instance_">> >>

\* C13: after init threw, the first cleanup call destroys each handle that
\* init had created exactly once and nothing else; no cleanup call is ever
\* handed a handle that was not created.
C13_PartialInitCleanup ==
    /\ \A c \in 1 .. Len(cleanupCalls) : Range(cleanupCalls[c]) \subseteq fields
    /\ (error # "none" /\ cleanupCalls # <<>>) =>
          /\ Range(cleanupCalls[1]) = fields
          /\ \A h \in Handles : Count(cleanupCalls[1], h) <= 1

\* C13 witness: init threw at the command pool of a debug build, and cleanup
\* destroyed the device, the messenger and the instance.
C13_Witness ==
    /\ error = "Failed to create command pool"
    /\ cleanupCalls # <<>>
    /\ cleanupCalls[1] = <<"device_", "debug_messenger_", "instance_">>

\* The place of a compute handle in the order C14 states.
C14_Rank(h) ==
    CASE h = "compute_fence_" -> 1
      [] h = "descriptor_pool_" -> 2
      [] h = "compute_pipeline_" -> 3
      [] h = "compute.pipeline_layout_" -> 4
      [] h = "descriptor_set_layout_" -> 5
      [] h = "compute_shader_" -> 6
      [] OTHER -> 0

\* C14: the compute pipeline's handles are destroyed in the order fence,
\* descriptor pool, pipeline, pipeline layout, descriptor-set layout, kernel
\* module, and every one of them before the context's device.
C14_ComputeCleanupOrder ==
    /\ \A i, j \in 1 .. Len(destroyLog) :
          (i < j /\ destroyLog[i] \in ComputeHandles /\ destroyLog[j] \in ComputeHandles)
              => C14_Rank(destroyLog[i]) < C14_Rank(destroyLog[j])
    /\ \A i, k \in 1 .. Len(destroyLog) :
          (destroyLog[i] \in ComputeHandles /\ destroyLog[k] = "device_") => i < k

\* C14 witness: main returned after a teardown that destroyed all six compute
\* handles and then the device.
C14_Witness ==
    /\ pc = "exited"
    /\ ComputeHandles \subseteq Range(destroyLog)
    /\ "device_" \in Range(destroyLog)

\* C15: the device stored by selectPhysicalDevice is the first suitable
\* discrete GPU of the enumeration if there is one, else the first suitable
\* device if there is one, else none; it is never an unsuitable device.
C15_SelectionPrefersDiscrete ==
    LET Suitable ==
            {i \in 1 .. Len(devices) :
                /\ \E f \in 1 .. Len(devices[i].queueFamilies) : devices[i].queueFamilies[f]
                /\ devices[i].hasSwapchainExt}
        Discrete == {i \in Suitable : devices[i].deviceType = "DISCRETE_GPU"}
        First(X) == CHOOSE x \in X : \A y \in X : x <= y
    IN  /\ Discrete # {} => physical_device_ = First(Discrete)
        /\ (Discrete = {} /\ Suitable # {}) => physical_device_ = First(Suitable)
        /\ physical_device_ # VK_NULL_HANDLE => physical_device_ \in Suitable

\* C15 witness: a suitable integrated GPU is enumerated before a suitable
\* discrete one, and the second was selected.
C15_Witness ==
    /\ pc = "ctx_ready"
    /\ Len(devices) = 2
    /\ devices[1] = [queueFamilies |-> <<TRUE>>, hasSwapchainExt |-> TRUE,
                      deviceType |-> "INTEGRATED_GPU"]
    /\ devices[2] = [queueFamilies |-> <<TRUE>>, hasSwapchainExt |-> TRUE,
                      deviceType |-> "DISCRETE_GPU"]
    /\ physical_device_ = 2

\* C16: while no enumerated device is suitable, no physical device is stored,
\* neither the logical device nor the command pool is created, init does
\* not get past the selection, and once the selection has run init has ended
\* with one of the selection's two errors.
C16_NoSuitableDeviceFails ==
    LET Suitable ==
            {i \in 1 .. Len(devices) :
                /\ \E f \in 1 .. Len(devices[i].queueFamilies) : devices[i].queueFamilies[f]
                /\ devices[i].hasSwapchainExt}
        SelectionRan ==
            /\ pc \notin {"ctx_createInstance", "ctx_setupDebugMessenger",
                           "ctx_selectPhysicalDevice"}
            /\ error \notin {"Failed to create Vulkan instance",
                              "Failed to set up debug messenger"}
    IN  Suitable = {} =>
          /\ physical_device_ = VK_NULL_HANDLE
          /\ "device_" \notin fields /\ "command_pool_" \notin fields
          /\ pc \notin {"ctx_createLogicalDevice", "ctx_createCommandPool", "ctx_ready"}
          /\ SelectionRan =>
                error = (IF Len(devices) = 0 THEN "Failed to find GPUs with Vulkan support"
                                             ELSE "Failed to find suitable GPU")

\* C16 witness: two devices were enumerated, one without a compute family and
\* one without the swapchain extension, and init failed at the selection.
C16_Witness ==
    /\ pc = "ctx_failed"
    /\ error = "Failed to find suitable GPU"
    /\ Len(devices) = 2
    /\ devices[1].queueFamilies = <<FALSE>> /\ devices[1].hasSwapchainExt
    /\ devices[2].queueFamilies = <<TRUE>> /\ ~devices[2].hasSwapchainExt

\* C17: the logical device handle is set only if the stored physical device
\* is an enumerated device that has a queue family with the compute bit and
\* the swapchain extension.
C17_DeviceOnlyIfSuitable ==
    "device_" \in fields =>
        /\ physical_device_ \in 1 .. Len(devices)
        /\ \E f \in 1 .. Len(devices[physical_device_].queueFamilies) :
              devices[physical_device_].queueFamilies[f]
        /\ devices[physical_device_].hasSwapchainExt

\* C17 witness: the logical device was created on the second device after the
\* first, which has a compute family but not the swapchain extension, was passed over.
C17_Witness ==
    /\ "device_" \in fields
    /\ Len(devices) = 2
    /\ devices[1].queueFamilies = <<TRUE>> /\ ~devices[1].hasSwapchainExt
    /\ physical_device_ = 2

\* C18: an image acquisition that presentFrame has begun always ends, by
\* returning an image or by failing once its wait bound is exceeded.
C18_AcquireIsBounded == (pc = "pf_acquire") ~> (pc # "pf_acquire")

\* C19: a processFrame call on a pipeline that is not configured ends with a
\* SynchronizationViolation error and submits nothing to the queue.
C19_DispatchBeforeConfigureFails ==
    (processFrameResult.called /\ ~processFrameResult.configured) =>
        (processFrameResult.outcome = "SynchronizationViolation" /\ queue = <<>>)

\* C20: once init has looked for the kernel bytecode file and found it absent,
\* empty, not a whole number of 4-byte words or otherwise not a SPIR-V module,
\* init has failed with the error of the shader step and no compute handle
\* has been created.
C20_BadShaderFileFailsInit ==
    (/\ shaderFile.read
     /\ \/ ~shaderFile.exists
        \/ shaderFile.size = 0
        \/ shaderFile.size % 4 # 0
        \/ ~shaderFile.spirv) =>
        /\ pc \in {"cmp_failed", "cmp_destroyed"}
        /\ error \in {"Failed to open shader file", "Failed to create compute shader module"}
        /\ fields \cap ComputeHandles = {}

\* C21: main returns 0 only when no error was raised and teardown destroyed
\* every object, returns 1 only when an error was raised, and once it has
\* returned the code is 1 exactly if an error was raised during
\* initialisation, the loop or teardown, and 0 otherwise.
C21_ExitCodeFollowsErrors ==
    /\ exitCode = "0" =>
          (pc = "exited" /\ error = "none" /\ Len(objs) = 4 /\ Len(dtorLog) = 4)
    /\ exitCode = "1" => (pc = "exited" /\ error # "none")
    /\ pc = "exited" => exitCode = (IF error = "none" THEN "0" ELSE "1")

\* A queue submission failed in the loop, the objects were unwound and main
\* returned 1.
C21_Witness ==
    /\ pc = "exited" /\ exitCode = "1"
    /\ error = "Failed to submit queue"
    /\ Len(dtorLog) = 4

\* C25: a created compute fence is signaled; until presentFrame resets the
\* presentation fence for the first time nothing has been submitted and that
\* fence is signaled, both right after init and at the first wait, which
\* therefore does not block.
C25_FencesStartSignaled ==
    /\ "compute_fence_" \in fields => computeFence = "signaled"
    /\ (pc \in {"run", "pf_wait"} /\ ~fenceEverReset) =>
          (fence = "signaled" /\ queue = <<>> /\ submitsSinceReset = 0)

\* The first presentFrame call stands at its wait with both fences signaled
\* and nothing submitted.
C25_Witness ==
    /\ pc = "pf_wait" /\ ~fenceEverReset
    /\ fence = "signaled" /\ computeFence = "signaled"
    /\ queue = <<>>

\* C22: after a processFrame call on a configured pipeline with block size b
\* between 1 and min(width, height), every pixel (x, y) of the output image
\* equals the input pixel at (floor(x/b)*b, floor(y/b)*b).
C22_PixelationTiling ==
    (processFrameResult.called /\ processFrameResult.configured) =>
        \A c \in Coords :
            processFrameResult.output[c] =
                processFrameResult.input[
                    <<(c[1] \div processFrameResult.block_size) * processFrameResult.block_size,
                      (c[2] \div processFrameResult.block_size) * processFrameResult.block_size>>]

C24_DescriptorSetByParity ==
    query.fn = "getDescriptorSet" =>
        /\ query.set \in {0, 1}
        /\ query.set = query.frame_index % 2
        /\ previous.fn = "getDescriptorSet" =>
              /\ query.frame_index = (previous.frame_index + 1) % (2^WordBits) =>
                    query.set # previous.set
              /\ query.frame_index % 2 = previous.frame_index % 2 =>
                    query.set = previous.set

\* The set for the largest frame index was asked for, then the set for the
\* index that follows it, which is 0.
C24_Witness ==
    /\ query.fn = "getDescriptorSet" /\ previous.fn = "getDescriptorSet"
    /\ previous.frame_index = 2^WordBits - 1 /\ query.frame_index = 0
    /\ previous.set = 1 /\ query.set = 0

\* C26: for reported image counts with min <= max whenever max > 0, the
\* requested image count is min + 1 when max is 0 or min + 1 <= max, and max
\* otherwise; it is at least min and, when max > 0, at most max.
C26_ImageCountClamped ==
    (/\ query.fn = "createSwapchain"
     /\ query.maxImageCount > 0 => query.minImageCount <= query.maxImageCount) =>
        /\ query.imageCount =
              (IF query.maxImageCount = 0 \/ query.minImageCount + 1 <= query.maxImageCount
                 THEN query.minImageCount + 1
                 ELSE query.maxImageCount)
        /\ query.imageCount >= query.minImageCount
        /\ query.maxImageCount > 0 => query.imageCount <= query.maxImageCount

\* C27: the extent of a created chain is the caller's width and height when
\* the reported current extent is the undefined special value, and the
\* reported current extent in every other case.
C27_ExtentNegotiation ==
    (query.fn = "createSwapchain" /\ query.outcome = "created") =>
        query.swapchain_extent_ =
            (IF query.currentExtent = [width |-> 2^WordBits - 1, height |-> 2^WordBits - 1]
               THEN [width |-> query.width, height |-> query.height]
               ELSE query.currentExtent)

\* A chain was created on a surface that reports a size other than the one
\* the caller asked for, and has the reported size.
C27_Witness ==
    /\ query.fn = "createSwapchain" /\ query.outcome = "created"
    /\ query.currentExtent = [width |-> 1, height |-> 2]
    /\ query.width = 2 /\ query.height = 1
    /\ query.swapchain_extent_ = [width |-> 1, height |-> 2]

\* C28: for every reported list of surface formats the selected format is the
\* 8-bit RGBA format with the standard colour space when the list holds it,
\* the first reported format otherwise, and always a member of the list.
C28_FormatSelection ==
    query.fn = "createSwapchain" =>
        /\ query.outcome # "crashed"
        /\ \E i \in 1 .. Len(query.formats) : query.selectedFormat = query.formats[i]
        /\ IF \E i \in 1 .. Len(query.formats) :
                  query.formats[i] =
                      [format |-> "R8G8B8A8_UNORM", colorSpace |-> "SRGB_NONLINEAR"]
             THEN query.selectedFormat =
                      [format |-> "R8G8B8A8_UNORM", colorSpace |-> "SRGB_NONLINEAR"]
             ELSE Len(query.formats) > 0 /\ query.selectedFormat = query.formats[1]

\* The bits set in n.
C29_Bits(n) == {k \in 0 .. WordBits : (n \div (2^k)) % 2 = 1}

\* The memory type indices that meet both masks of the last call.
C29_Matching ==
    {i \in 0 .. (Len(query.memoryTypes) - 1) :
        /\ i \in C29_Bits(query.typeFilter)
        /\ C29_Bits(query.properties) \subseteq C29_Bits(query.memoryTypes[i + 1])}

\* C29: findMemoryType returns the smallest memory type index whose bit is
\* set in the type mask and whose property flags include all the requested
\* ones, and throws exactly when there is no such index.
C29_FirstMatchingMemoryType ==
    query.fn = "findMemoryType" =>
        IF C29_Matching = {}
          THEN query.outcome = "thrown" /\ error = "Failed to find suitable memory type"
          ELSE /\ query.outcome = "returned"
               /\ query.index \in C29_Matching
               /\ \A i \in C29_Matching : query.index <= i

\* Type 0 is allowed by the mask but lacks a requested flag, type 1 meets
\* both masks, and index 1 was returned.
C29_Witness ==
    /\ query.fn = "findMemoryType" /\ query.outcome = "returned"
    /\ query.memoryTypes = <<1, 3>> /\ query.typeFilter = 3 /\ query.properties = 2
    /\ query.index = 1

\* C30: every grabFrame call on a grabber constructed with width w and height
\* h returns true and gives a frame of width w, height h, stride 4*w and a
\* buffer of 4*w*h bytes; two calls give the same pixel data.
C30_GrabFrameContract ==
    query.fn = "grabFrame" =>
        /\ query.returned = "true"
        /\ query.width = grabber.width_ /\ query.height = grabber.height_
        /\ query.stride = 4 * grabber.width_
        /\ query.size = 4 * grabber.width_ * grabber.height_
        /\ previous.fn = "grabFrame" => query.data = previous.data

\* C31: a presentFrame call returns true only if its image acquisition
\* succeeded (as did its fence wait, recording, submission and present).
C31_TrueOnlyAfterSuccess ==
    (pc = "run" /\ ret = "true") => acquireOk

C35_MarkersNotResignaled ==
    [][/\ Len(queue') < Len(queue) => ~renderFinished
       /\ (releasePending \in ImageIdx /\ releasePending' \notin ImageIdx) => ~imgAvail]_vars

\* C39: readShaderFile writes no more bytes into its buffer than the buffer
\* holds, 4 * floor(s/4) for a file of s bytes.
C39_ReadFitsBuffer ==
    (shaderFile.read /\ shaderFile.exists) =>
        ReadBytes(shaderFile.size) <= 4 * (shaderFile.size \div 4)

\* C38: when ComputePipeline::init or DisplayPipeline::init throws, the cleanup
\* the destructors run destroys every object created before the failing step
\* exactly once and no object that was never created, and the context's
\* objects are destroyed after all of them, by the destructor that runs last.
C38_InitFailureCleanup ==
    (/\ pc = "exited"
     /\ "compute_pipeline_" \in Range(objs)
     /\ error \in Range(ComputeInitErrors) \cup Range(DisplayInitErrors)) =>
        /\ \A h \in Handles : Count(destroyLog, h) = (IF h \in fields THEN 1 ELSE 0)
        /\ ContextHandles \cap Range(destroyLog) # {}
        /\ \A i, j \in 1 .. Len(destroyLog) :
              (destroyLog[i] \in ContextHandles /\ destroyLog[j] \notin ContextHandles) => j < i
        /\ dtorLog[Len(dtorLog)] = "vk_ctx_"

C38_Witness ==
    /\ pc = "exited"
    /\ error = "Failed to create render pass"
    /\ "swapchain_image_views_" \in Range(destroyLog)
    /\ "compute_fence_" \in Range(destroyLog)
    /\ "render_pass_" \notin Range(destroyLog)

\* C33: the commands recorded for the acquired chain image are, in this order
\* and nothing else, a transition of the image to TRANSFER_DST_OPTIMAL, one copy
\* from the compute output into it with the region of swapchain_extent_, and a
\* transition of the image to PRESENT_SRC_KHR; the image is in
\* TRANSFER_DST_OPTIMAL when the copy executes and in PRESENT_SRC_KHR when the
\* presentation engine executes its present request.
C33_RecordedCommandsAndLayouts ==
    /\ [](\A i \in ImageIdx :
            cmdBuf[i] \in {"executable", "pending"} =>
                /\ Len(commands[i]) = 3
                /\ \A n \in 1 .. 3 : commands[i][n].image = i
                /\ commands[i][1].cmd = "vkCmdPipelineBarrier"
                /\ commands[i][1].newLayout = "TRANSFER_DST_OPTIMAL"
                /\ commands[i][2].cmd = "vkCmdCopyImage"
                /\ commands[i][2].region = "swapchain_extent_"
                /\ commands[i][3].cmd = "vkCmdPipelineBarrier"
                /\ commands[i][3].newLayout = "PRESENT_SRC_KHR")
    /\ [][(/\ queue # <<>> /\ Len(queue') = Len(queue)
            /\ ~Head(queue).copied /\ Head(queue').copied) =>
              layout'[Head(queue).img] = "TRANSFER_DST_OPTIMAL"]_vars
    /\ [][Len(presentQ') < Len(presentQ) =>
              layout[Head(presentQ)] = "PRESENT_SRC_KHR"]_vars

\* C34: once DisplayPipeline::init has returned, there are as many image
\* views, framebuffers and command buffers as the chain has images, and every
\* index of a chain image is an index into swapchain_images_ and into
\* command_buffers_.
C34_OnePerChainImage ==
    pc = "run" =>
        /\ vectors.swapchain_image_views_ = NumImages
        /\ vectors.framebuffers_ = NumImages
        /\ vectors.command_buffers_ = NumImages
        /\ \A i \in ImageIdx : i < vectors.swapchain_images_ /\ i < vectors.command_buffers_

\* C36: the region presentFrame copies, swapchain_extent_ from offset (0, 0),
\* lies inside the compute output image, whose width and height are the ones
\* the caller also passes to DisplayPipeline::init, whatever current extent
\* the surface reports.
C36_CopyWithinComputeOutput ==
    (query.fn = "createSwapchain" /\ query.outcome = "created") =>
        /\ query.copyRegion.srcOffset.x + query.copyRegion.extent.width <= query.width
        /\ query.copyRegion.srcOffset.y + query.copyRegion.extent.height <= query.height

\* C37: every command presentFrame records on a chain image is one the usage
\* the chain was created with permits: a copy into the image, and a barrier
\* to or from TRANSFER_DST_OPTIMAL, need transfer-destination usage.
C37_OperationsPermittedByUsage ==
    \A i \in ImageIdx : \A n \in 1 .. Len(commands[i]) :
        (\/ commands[i][n].cmd = "vkCmdCopyImage"
         \/ "TRANSFER_DST_OPTIMAL" \in {commands[i][n].oldLayout, commands[i][n].newLayout}) =>
            "TRANSFER_DST" \in imageUsage

====
